---- MODULE Spec2Model ----
(***************************************************************************)
(* tracking.js: the TrackerTask run/stop state machine, the relay of the   *)
(* tracker's 'track' events, the dispatch of tracking.track over canvas,   *)
(* img and video elements and the requestAnimationFrame sampling loop of   *)
(* trackVideo_.  One TrackerTask, two trackers (ObjectTrackers; the task   *)
(* is created on the first), one window scheduler.  JavaScript is single   *)
(* threaded: every action below is one macrotask run to completion, with   *)
(* the listener calls it makes (re-entrant run()/stop() included) folded in *)
(* by the recursive operators Run, Stop, EmitTask, TrackerEmit.            *)
(***************************************************************************)
EXTENDS Integers, Sequences, FiniteSets

\* ---- bounds of the exploration ------------------------------------------
MaxRuns == 3       \* Idle->Running transitions of the task
MaxTicks == 3      \* animation frames fired
MaxEmits == 2      \* detections emitted by the tracker
MaxFreq == 3       \* largest frequency divisor tried
MaxNested == 1     \* times the user's listeners call back into the task
MaxSwaps == 1      \* setTracker calls
MaxResizes == 1    \* times the video element changes size

\* trackVideo_: 'freq' in opt_options ? opt_options.freq : 100
DefaultFreq == 100

Events == {"run", "stop", "track"}
ListenerActs == {"none", "run", "stop", "emit"}
Kinds == {"task", "video", "canvas", "img", "div", "none"}
Options == {"undefined", "empty", "camera", "freq"}
Trackers == {1, 2}
Dims == {"320x240", "640x480"}
ConfigErrors == {"ElementNotFound", "TrackerNotSpecified", "ElementNotSupported"}

VARIABLES
  kind,          \* "task": new TrackerTask(tracker); else the element given to
                 \* tracking.track: its node name, "none" when the selector matches nothing
  options,       \* the opt_options given to tracking.track
  hasTracker,    \* a tracker was given
  err,           \* the error the construction threw, "none" when it handed out the task
  captureRequested, \* initUserMedia_ was called
  freq,          \* trackVideo_: var freq
  classifiers,   \* ObjectTracker.classifiers is set (TRUE) or undefined (FALSE)
  running,       \* TrackerTask.running_
  tracker,       \* TrackerTask.tracker_
  swaps,         \* number of setTracker calls made
  reemit,        \* TrackerTask.reemitTrackEvent_: id of the closure, 0 = undefined
  tListeners,    \* per tracker, its 'track' listener array (relay closure ids)
  requestId,     \* trackVideo_: var requestId, 0 = undefined
  pending,       \* window: animation-frame handles requested, not fired, not cancelled
  count,         \* trackVideo_: var count
  canvasFrame,   \* trackVideo_: the tick whose frame the working canvas holds, 0 = blank
  elemDims,      \* element.offsetWidth x element.offsetHeight
  canvasDims,    \* canvas.width x canvas.height (trackVideo_: var width, height)
  resizes,       \* number of times the element changed size
  resizeQueued,  \* a 'resize' event of the element awaits dispatch
  loads,         \* trackImg_: number of Canvas.loadImage calls
  pendingLoads,  \* trackImg_: image loads in flight
  acts,          \* what the user's listener on each task event does: run(), stop(),
                 \* make the tracker emit, or nothing
  fuel,          \* how many more times the user's listeners call back into the task
  runSignals,    \* number of 'run' events the task emitted
  trackCalls,    \* number of tracker.track invocations
  emitted,       \* per detection emitted by a tracker: the task was "running",
                 \* "stopping" (inside stop(), after the flag was cleared) or "idle"
  delivered,     \* detections relayed to the task's 'track' event, in order
  ticks,         \* tick callbacks executed since the task was created
  ticksSinceRun, \* tick callbacks executed since the last Idle->Running transition
  allReady,      \* every extraction tick so far found the source ready
  last           \* the operation performed last, its inputs and what it did

vars == <<kind, options, hasTracker, err, captureRequested, freq, classifiers,
          running, tracker, swaps, reemit, tListeners, requestId, pending,
          count, canvasFrame, elemDims, canvasDims, resizes, resizeQueued,
          loads, pendingLoads,
          acts, fuel, runSignals, trackCalls, emitted, delivered,
          ticks, ticksSinceRun, allReady, last>>

\* The state as one record, for the operators that model the call tree.
\* stopSignals, stopCalls: the 'stop' events emitted and the stop() calls
\* entered (nested ones included) during the operation; stopping: the stop()
\* calls in progress past their inRunning() test; ret: what the outermost
\* run()/stop() returned; thrown: an exception is propagating, err its name;
\* readDims, trackDims: the canvas size getImageData read and the size handed
\* to tracker.track during the operation.
St ==
  [kind |-> kind, options |-> options, hasTracker |-> hasTracker,
   captureRequested |-> captureRequested,
   freq |-> freq, classifiers |-> classifiers, running |-> running,
   tracker |-> tracker, swaps |-> swaps,
   reemit |-> reemit, tListeners |-> tListeners, requestId |-> requestId,
   pending |-> pending, count |-> count, canvasFrame |-> canvasFrame,
   elemDims |-> elemDims, canvasDims |-> canvasDims, resizes |-> resizes,
   resizeQueued |-> resizeQueued,
   loads |-> loads, pendingLoads |-> pendingLoads,
   acts |-> acts, fuel |-> fuel,
   runSignals |-> runSignals, stopSignals |-> 0, stopCalls |-> 0, stopping |-> 0,
   trackCalls |-> trackCalls, emitted |-> emitted, delivered |-> delivered,
   ticks |-> ticks, ticksSinceRun |-> ticksSinceRun,
   allReady |-> allReady, ret |-> "none", thrown |-> FALSE, err |-> "none",
   readDims |-> "none", trackDims |-> "none"]

Range(q) == {q[i] : i \in 1..Len(q)}

Min(S) == CHOOSE x \in S : \A y \in S : x <= y

\* throw new Error(e)
Throw(s, e) == [s EXCEPT !.thrown = TRUE, !.err = e]

\* ---- EventEmitter (utils/EventEmitter) ----------------------------------

\* EventEmitter.on on the task's tracker: the listener goes to the end of
\* the array.
TrackerOn(s, f) == [s EXCEPT !.tListeners[s.tracker] = Append(@, f)]

\* EventEmitter.removeListener on the task's tracker: the first occurrence of
\* the listener is spliced out; an unknown listener (or undefined) changes
\* nothing.
TrackerRemoveListener(s, f) ==
  LET q == s.tListeners[s.tracker]
  IN IF f \notin Range(q) THEN s
     ELSE LET i == Min({j \in 1..Len(q) : q[j] = f})
          IN [s EXCEPT !.tListeners[s.tracker] =
                SubSeq(q, 1, i - 1) \o SubSeq(q, i + 1, Len(q))]

\* ---- window.requestAnimationFrame / cancelAnimationFrame ----------------

\* A handle the window has not handed out among the live ones.
NewHandle(s) == Min({h \in 1..(Cardinality(s.pending) + 1) : h \notin s.pending})

\* cancelAnimationFrame(id): a handle that already fired, or undefined, is ignored.
CancelAnimationFrame(s, id) == [s EXCEPT !.pending = @ \ {id}]

\* requestAnimationFrame_(): requestId = window.requestAnimationFrame(callback)
RequestAnimationFrame_(s) ==
  LET h == NewHandle(s)
  IN [s EXCEPT !.requestId = h, !.pending = @ \cup {h}]

\* ---- TrackerTask --------------------------------------------------------

\* The relay closures attached to some tracker.
Attached(s) == UNION {Range(s.tListeners[t]) : t \in Trackers}

\* A closure identity not attached to any tracker.
NewClosure(s) ==
  Min({f \in 1..(Cardinality(Attached(s)) + 1) : f \notin Attached(s)})

RECURSIVE Run(_), Stop(_), EmitTask(_, _), UserListener(_, _), EmitFrom(_, _, _, _),
          TrackerEmit(_, _), Track(_, _), TrackCanvasInternal_(_)

\* The user's listener on task event ev: calls run() or stop() on the task, or
\* makes the task's tracker emit a detection, while it has fuel, then returns.
UserListener(s, ev) ==
  IF s.acts[ev] = "none" \/ s.fuel = 0 THEN s
  ELSE LET s1 == [s EXCEPT !.fuel = @ - 1]
       IN IF s.acts[ev] = "run" THEN Run(s1)
          ELSE IF s.acts[ev] = "stop" THEN Stop(s1)
          ELSE TrackerEmit(s1, s1.tracker)

\* The listeners trackVideo_ registers on the task before it returns it.
VideoListener(s, ev) ==
  IF s.kind # "video" THEN s
  ELSE IF ev = "stop" THEN CancelAnimationFrame(s, s.requestId)
  ELSE IF ev = "run" THEN RequestAnimationFrame_(s)
  ELSE s

\* The 'run' listener trackCanvas_ registers: trackCanvasInternal_(element, tracker)
CanvasListener(s, ev) ==
  IF s.kind = "canvas" /\ ev = "run" THEN TrackCanvasInternal_(s) ELSE s

\* Canvas.loadImage(canvas, src, x, y, w, h, callback): the image is requested;
\* the callback runs later, when it has loaded.
LoadImage(s) == [s EXCEPT !.loads = @ + 1, !.pendingLoads = @ + 1]

\* The 'run' listener trackImg_ registers.
ImgListener(s, ev) ==
  IF s.kind = "img" /\ ev = "run" THEN LoadImage(s) ELSE s

\* task.emit(ev): the listeners in registration order, synchronously; an
\* exception thrown by one of them ends the dispatch.
EmitTask(s, ev) ==
  LET s1 == IF ev = "run" THEN [s EXCEPT !.runSignals = @ + 1]
            ELSE IF ev = "stop" THEN [s EXCEPT !.stopSignals = @ + 1]
            ELSE s
      s2 == ImgListener(CanvasListener(VideoListener(s1, ev), ev), ev)
  IN IF s2.thrown THEN s2 ELSE UserListener(s2, ev)

\* run() without its inRunning() test.
RunUnguarded(s) ==
  LET f == NewClosure(s)
      s1 == [s EXCEPT !.running = TRUE, !.reemit = f,
                      !.ticksSinceRun = 0]
      s2 == EmitTask(TrackerOn(s1, f), "run")
  IN IF s2.thrown THEN s2 ELSE [s2 EXCEPT !.ret = "this"]

\* TrackerTask.run
Run(s) ==
  IF s.running THEN [s EXCEPT !.ret = "undefined"]
  ELSE LET f == NewClosure(s)
           s1 == [s EXCEPT !.running = TRUE, !.reemit = f,
                           !.ticksSinceRun = 0]
           s2 == EmitTask(TrackerOn(s1, f), "run")
       IN IF s2.thrown THEN s2 ELSE [s2 EXCEPT !.ret = "this"]

\* stop() without its inRunning() test.
StopUnguarded(s) ==
  LET s0 == [s EXCEPT !.stopCalls = @ + 1]
      s1 == [s0 EXCEPT !.running = FALSE, !.stopping = @ + 1]
      s2 == EmitTask(s1, "stop")
      s3 == TrackerRemoveListener([s2 EXCEPT !.stopping = @ - 1], s2.reemit)
  IN IF s2.thrown THEN s2 ELSE [s3 EXCEPT !.ret = "this"]

\* TrackerTask.stop
Stop(s) ==
  LET s0 == [s EXCEPT !.stopCalls = @ + 1]
  IN IF ~s0.running THEN [s0 EXCEPT !.ret = "undefined"]
     ELSE LET s1 == [s0 EXCEPT !.running = FALSE, !.stopping = @ + 1]
              s2 == EmitTask(s1, "stop")
              s3 == TrackerRemoveListener([s2 EXCEPT !.stopping = @ - 1],
                                          s2.reemit)
          IN IF s2.thrown THEN s2 ELSE [s3 EXCEPT !.ret = "this"]

\* TrackerTask.setTracker
SetTracker(s, t) == [s EXCEPT !.tracker = t]

\* reemitTrackEvent_: self.emit('track', event)
ReemitTrackEvent_(s, p) ==
  EmitTask([s EXCEPT !.delivered = Append(@, p)], "track")

\* ---- the tracker --------------------------------------------------------

\* tracker.emit('track', event) on tracker t: the listener array is walked by
\* index while listeners may splice it.
EmitFrom(s, t, p, j) ==
  IF s.thrown \/ j > Len(s.tListeners[t]) THEN s
  ELSE EmitFrom(ReemitTrackEvent_(s, p), t, p, j + 1)

\* What the task is doing when a detection is emitted.
Phase(s) ==
  IF s.running THEN "running" ELSE IF s.stopping > 0 THEN "stopping" ELSE "idle"

TrackerEmit(s, t) ==
  LET p == Len(s.emitted) + 1
  IN EmitFrom([s EXCEPT !.emitted = Append(@, Phase(s))], t, p, 1)

\* ObjectTracker.track, on the tracker the element was tracked with
Track(s, dims) ==
  LET s1 == [s EXCEPT !.trackCalls = @ + 1, !.trackDims = dims]
  IN IF ~s1.classifiers THEN Throw(s1, "ClassifierNotSpecified")
     ELSE TrackerEmit(s1, 1)

\* trackCanvasInternal_ handing tracker.track the size of the tracked element
\* instead of the size of the canvas it read.
TrackCanvasInternalElementSize(s) ==
  Track([s EXCEPT !.readDims = s.canvasDims], s.elemDims)

\* trackCanvasInternal_
TrackCanvasInternal_(s) ==
  Track([s EXCEPT !.readDims = s.canvasDims], s.canvasDims)

\* ---- trackVideo_ --------------------------------------------------------

\* try { context.drawImage(element, 0, 0, width, height); } catch (err) {}
\* fault: drawImage throws, the canvas keeps what it held.
DrawImage(s, fault) ==
  IF fault THEN s ELSE [s EXCEPT !.canvasFrame = s.ticks]

\* The body of the readyState test of the tick callback, with a catch around
\* all of it.
ExtractCatchAll(s, fault) ==
  [TrackCanvasInternal_(DrawImage(s, fault)) EXCEPT !.thrown = FALSE]

\* The body of the readyState test of the tick callback.
Extract(s, fault) == TrackCanvasInternal_(DrawImage(s, fault))

\* The tick callback testing count++ % freq instead of ++count % freq.
TickCallbackPostIncrement(s, ready, fault) ==
  LET c == s.count + 1
      s1 == [s EXCEPT !.ticks = @ + 1, !.ticksSinceRun = @ + 1]
      s2 == IF s.count % s.freq = 0
            THEN LET s3 == [s1 EXCEPT !.count = 0,
                                      !.allReady = @ /\ ready]
                 IN IF ready THEN Extract(s3, fault) ELSE s3
            ELSE [s1 EXCEPT !.count = c]
  IN IF s2.thrown THEN s2 ELSE RequestAnimationFrame_(s2)

\* The tick callback returning early, without requesting the next frame, when
\* the source is not ready.
TickCallbackHaltWhenNotReady(s, ready, fault) ==
  LET c == s.count + 1
      s1 == [s EXCEPT !.ticks = @ + 1, !.ticksSinceRun = @ + 1]
      s2 == IF c % s.freq = 0
            THEN LET s3 == [s1 EXCEPT !.count = 0,
                                      !.allReady = @ /\ ready]
                 IN IF ready THEN Extract(s3, fault) ELSE s3
            ELSE [s1 EXCEPT !.count = c]
  IN IF s2.thrown \/ (c % s.freq = 0 /\ ~ready) THEN s2
     ELSE RequestAnimationFrame_(s2)

\* The callback given to window.requestAnimationFrame.  ready: readyState is
\* HAVE_ENOUGH_DATA; fault: context.drawImage throws.
TickCallback(s, ready, fault) ==
  LET c == s.count + 1
      s1 == [s EXCEPT !.ticks = @ + 1, !.ticksSinceRun = @ + 1]
      s2 == IF c % s.freq = 0
            THEN LET s3 == [s1 EXCEPT !.count = 0,
                                      !.allReady = @ /\ ready]
                 IN IF ready THEN Extract(s3, fault) ELSE s3
            ELSE [s1 EXCEPT !.count = c]
  IN IF s2.thrown THEN s2 ELSE RequestAnimationFrame_(s2)

\* resizeCanvas_: the canvas takes the element's size; setting the size of a
\* canvas blanks it.
ResizeCanvas_(s) ==
  [s EXCEPT !.canvasDims = s.elemDims, !.canvasFrame = 0]

\* The TrackerTask constructor.
NewTrackerTask(s) ==
  IF ~s.hasTracker THEN Throw(s, "TrackerNotSpecified") ELSE s

\* trackVideo_: the frequency is read from the options, the canvas sized, the
\* task created, its listeners registered and run() called before the caller
\* can attach a listener of its own.  'freq' in undefined is a TypeError.
TrackVideo_(s) ==
  IF s.options = "undefined" THEN Throw(s, "TypeError")
  ELSE LET n == IF s.options = "freq" THEN s.freq ELSE DefaultFreq
           s1 == NewTrackerTask(ResizeCanvas_([s EXCEPT !.freq = n]))
       IN IF s1.thrown THEN s1 ELSE Run(s1)

\* trackCanvas_
TrackCanvas_(s) ==
  LET s1 == NewTrackerTask(s)
  IN IF s1.thrown THEN s1 ELSE Run(s1)

\* trackImg_
TrackImg_(s) ==
  LET s1 == NewTrackerTask(s)
  IN IF s1.thrown THEN s1 ELSE Run(s1)

\* initUserMedia_: the camera is requested.
InitUserMedia_(s) == [s EXCEPT !.captureRequested = TRUE]

\* tracking.track without its test of the tracker argument.
TrackingTrackNoTrackerTest(s) ==
  IF s.kind = "none" THEN Throw(s, "ElementNotFound")
  ELSE IF s.kind = "canvas" THEN TrackCanvas_(s)
  ELSE IF s.kind = "img" THEN TrackImg_(s)
  ELSE IF s.kind = "video"
    THEN TrackVideo_(IF s.options = "camera" THEN InitUserMedia_(s) ELSE s)
  ELSE Throw(s, "ElementNotSupported")

\* tracking.track
TrackingTrack(s) ==
  IF s.kind = "none" THEN Throw(s, "ElementNotFound")
  ELSE IF ~s.hasTracker THEN Throw(s, "TrackerNotSpecified")
  ELSE IF s.kind = "canvas" THEN TrackCanvas_(s)
  ELSE IF s.kind = "img" THEN TrackImg_(s)
  ELSE IF s.kind = "video"
    THEN TrackVideo_(IF s.options = "camera" THEN InitUserMedia_(s) ELSE s)
  ELSE Throw(s, "ElementNotSupported")

\* ---- the machine --------------------------------------------------------

Set(s) ==
  /\ kind' = s.kind
  /\ options' = s.options
  /\ hasTracker' = s.hasTracker
  /\ captureRequested' = s.captureRequested
  /\ freq' = s.freq
  /\ classifiers' = s.classifiers
  /\ running' = s.running
  /\ tracker' = s.tracker
  /\ swaps' = s.swaps
  /\ reemit' = s.reemit
  /\ tListeners' = s.tListeners
  /\ requestId' = s.requestId
  /\ pending' = s.pending
  /\ count' = s.count
  /\ canvasFrame' = s.canvasFrame
  /\ elemDims' = s.elemDims
  /\ canvasDims' = s.canvasDims
  /\ resizes' = s.resizes
  /\ resizeQueued' = s.resizeQueued
  /\ loads' = s.loads
  /\ pendingLoads' = s.pendingLoads
  /\ acts' = s.acts
  /\ fuel' = s.fuel
  /\ runSignals' = s.runSignals
  /\ trackCalls' = s.trackCalls
  /\ emitted' = s.emitted
  /\ delivered' = s.delivered
  /\ ticks' = s.ticks
  /\ ticksSinceRun' = s.ticksSinceRun
  /\ allReady' = s.allReady
  /\ err' = err

NoActs == [e \in Events |-> "none"]

\* The listeners the caller attaches to the task it was handed: at most one
\* of them calls back into the task, on one of the three events.
ListenerConfigs ==
  {a \in [Events -> ListenerActs] : \A e, g \in Events :
     (a[e] # "none" /\ a[g] # "none") => e = g}

\* The arguments of a construction: the options matter to a video element
\* only, the frequency when the options carry one.
Constructions ==
  {x \in [k : Kinds, t : BOOLEAN, o : Options, n : 1..MaxFreq, c : BOOLEAN] :
     /\ x.k # "video" => x.o = "undefined"
     /\ x.o # "freq" => x.n = 1
     /\ x.k \in {"none", "div", "task"} => x.c}

\* The state before the constructor runs: nothing is running and nobody
\* listens to the trackers.
NewTask(k, n, c) ==
  [kind |-> k, options |-> "undefined", hasTracker |-> TRUE,
   captureRequested |-> FALSE,
   freq |-> n, classifiers |-> c, running |-> FALSE,
   tracker |-> 1, swaps |-> 0, reemit |-> 0,
   tListeners |-> [t \in Trackers |-> <<>>], requestId |-> 0, pending |-> {},
   count |-> 0, canvasFrame |-> 0,
   elemDims |-> "320x240", canvasDims |-> "320x240", resizes |-> 0,
   resizeQueued |-> FALSE, loads |-> 0, pendingLoads |-> 0,
   acts |-> NoActs, fuel |-> 0,
   runSignals |-> 0, stopSignals |-> 0, stopCalls |-> 0, stopping |-> 0,
   trackCalls |-> 0,
   emitted |-> <<>>, delivered |-> <<>>, ticks |-> 0, ticksSinceRun |-> 0,
   allReady |-> TRUE, ret |-> "none", thrown |-> FALSE, err |-> "none",
   readDims |-> "none", trackDims |-> "none"]

\* new TrackerTask(tracker) for kind "task", tracking.track(element, tracker,
\* opt_options) otherwise.
Construct(x) ==
  LET s0 == [NewTask(x.k, x.n, x.c) EXCEPT !.options = x.o, !.hasTracker = x.t]
  IN IF x.k = "task" THEN NewTrackerTask(s0) ELSE TrackingTrack(s0)

\* The relay listeners attached, over all trackers.
RelayCount(tl) == Len(tl[1]) + Len(tl[2])

\* How many run() calls the host has made in a row (counted up to 2), the
\* first of them on an Idle task, with no stop() call entered since the first
\* began.
Streak(op, s) ==
  IF op # "run" \/ s.stopCalls > 0 THEN 0
  ELSE IF last.streak > 0 THEN 2
  ELSE IF ~running THEN 1
  ELSE 0

\* What the last operation did, measured against the state it started in.
\* streakRun: the 'run' events emitted during the streak.
Did(op, s, ready, fault) ==
  [op |-> op, ret |-> s.ret, threw |-> s.thrown,
   wasRunning |-> running, ready |-> ready, fault |-> fault,
   extractTick |-> (op = "tick" /\ (count + 1) % freq = 0),
   dRun |-> s.runSignals - runSignals,
   dStop |-> s.stopSignals,
   dStopCalls |-> s.stopCalls,
   dTrack |-> s.trackCalls - trackCalls,
   dEmit |-> Len(s.emitted) - Len(emitted),
   dDeliver |-> Len(s.delivered) - Len(delivered),
   listenersBefore |-> RelayCount(tListeners),
   pendingBefore |-> Cardinality(pending),
   readDims |-> s.readDims, trackDims |-> s.trackDims,
   streak |-> Streak(op, s),
   streakRun |-> IF Streak(op, s) = 0 THEN 0
                 ELSE IF Streak(op, s) = 1 THEN s.runSignals - runSignals
                 ELSE last.streakRun + (s.runSignals - runSignals)]

Init ==
  \E x \in Constructions, a \in ListenerConfigs :
    LET s1 == Construct(x)
        s2 == IF s1.thrown THEN s1 ELSE [s1 EXCEPT !.acts = a, !.fuel = MaxNested]
    IN /\ s1.thrown => a = NoActs
       /\ kind = s2.kind
       /\ options = s2.options
       /\ hasTracker = s2.hasTracker
       /\ err = s2.err
       /\ captureRequested = s2.captureRequested
       /\ freq = s2.freq
       /\ classifiers = s2.classifiers
       /\ running = s2.running
       /\ tracker = s2.tracker
       /\ swaps = s2.swaps
       /\ reemit = s2.reemit
       /\ tListeners = s2.tListeners
       /\ requestId = s2.requestId
       /\ pending = s2.pending
       /\ count = s2.count
       /\ canvasFrame = s2.canvasFrame
       /\ elemDims = s2.elemDims
       /\ canvasDims = s2.canvasDims
       /\ resizes = s2.resizes
       /\ resizeQueued = s2.resizeQueued
       /\ loads = s2.loads
       /\ pendingLoads = s2.pendingLoads
       /\ acts = s2.acts
       /\ fuel = s2.fuel
       /\ runSignals = s2.runSignals
       /\ trackCalls = s2.trackCalls
       /\ emitted = s2.emitted
       /\ delivered = s2.delivered
       /\ ticks = s2.ticks
       /\ ticksSinceRun = s2.ticksSinceRun
       /\ allReady = s2.allReady
       /\ last = [op |-> "init", ret |-> s1.ret, threw |-> s1.thrown,
                  wasRunning |-> FALSE, ready |-> FALSE, fault |-> FALSE,
                  extractTick |-> FALSE, dRun |-> s1.runSignals, dStop |-> 0,
                  dStopCalls |-> 0, dTrack |-> s1.trackCalls,
                  dEmit |-> Len(s1.emitted), dDeliver |-> Len(s1.delivered),
                  listenersBefore |-> 0, pendingBefore |-> 0,
                  readDims |-> s1.readDims, trackDims |-> s1.trackDims,
                  streak |-> 0, streakRun |-> 0]

\* The construction handed the task to the host program.
Handed == err = "none"

\* The emissions the operation is about to make fit the bound.
RoomToEmit == Len(emitted) < MaxEmits

\* The host program calls task.run().
DoRun ==
  /\ Handed
  /\ running \/ runSignals < MaxRuns
  /\ (kind = "canvas" /\ ~running) => RoomToEmit
  /\ LET s == Run(St)
     IN Set(s) /\ last' = Did("run", s, FALSE, FALSE)

\* The host program calls task.stop().
DoStop ==
  /\ Handed
  /\ LET s == Stop(St)
     IN Set(s) /\ last' = Did("stop", s, FALSE, FALSE)

\* Tracker t emits a detection on its own (tracker.emit('track', event)
\* outside any tick).
DoEmit(t) ==
  /\ Handed
  /\ RoomToEmit
  /\ LET s == TrackerEmit(St, t)
     IN Set(s) /\ last' = Did("emit", s, FALSE, FALSE)

\* The window fires the animation frame h.
Tick(h) ==
  /\ ticks < MaxTicks
  /\ \E ready \in BOOLEAN, fault \in BOOLEAN :
       /\ ((count + 1) % freq # 0) => (ready /\ ~fault)
       /\ ~ready => ~fault
       /\ ((count + 1) % freq = 0 /\ ready /\ classifiers) => RoomToEmit
       /\ LET s == TickCallback([St EXCEPT !.pending = @ \ {h}], ready, fault)
          IN Set(s) /\ last' = Did("tick", s, ready, fault)

\* An image requested by Canvas.loadImage has loaded: its callback runs.
ImageLoaded ==
  /\ pendingLoads > 0
  /\ classifiers => RoomToEmit
  /\ LET s == TrackCanvasInternal_([St EXCEPT !.pendingLoads = @ - 1])
     IN Set(s) /\ last' = Did("load", s, FALSE, FALSE)

\* The host program calls task.setTracker(t).
DoSetTracker(t) ==
  /\ Handed
  /\ swaps < MaxSwaps
  /\ LET s == SetTracker([St EXCEPT !.swaps = @ + 1], t)
     IN Set(s) /\ last' = Did("setTracker", s, FALSE, FALSE)

\* The video element changes size; its 'resize' event is queued.
ElementResized(d) ==
  /\ resizes < MaxResizes
  /\ d # elemDims
  /\ LET s == [St EXCEPT !.elemDims = d, !.resizes = @ + 1, !.resizeQueued = TRUE]
     IN Set(s) /\ last' = Did("resized", s, FALSE, FALSE)

\* The 'resize' event is dispatched: resizeCanvas_ runs.
ResizeHandler ==
  /\ resizeQueued
  /\ LET s == ResizeCanvas_([St EXCEPT !.resizeQueued = FALSE])
     IN Set(s) /\ last' = Did("resize", s, FALSE, FALSE)

Next ==
  \/ DoRun
  \/ DoStop
  \/ DoEmit(1)
  \/ \E h \in pending : Tick(h)
  \/ ImageLoaded

Spec == Init /\ [][Next]_vars

\* The video element of a running trackVideo_ changes size.
InitResize == Init /\ kind = "video" /\ acts = NoActs

NextResize ==
  \/ DoRun
  \/ DoStop
  \/ \E h \in pending : Tick(h)
  \/ \E d \in Dims : ElementResized(d)
  \/ ResizeHandler

SpecResize == InitResize /\ [][NextResize]_vars

\* A TrackerTask whose tracker is replaced by setTracker.
InitSwap == Init /\ kind = "task" /\ acts = NoActs

NextSwap ==
  \/ DoRun
  \/ DoStop
  \/ \E t \in Trackers : DoEmit(t)
  \/ \E t \in Trackers : DoSetTracker(t)

SpecSwap == InitSwap /\ [][NextSwap]_vars

\* ---- properties ---------------------------------------------------------

TypeOK ==
  /\ kind \in Kinds
  /\ options \in Options
  /\ err \in ConfigErrors \cup {"none", "TypeError", "ClassifierNotSpecified"}
  /\ freq \in 1..MaxFreq \cup {DefaultFreq}
  /\ running \in BOOLEAN
  /\ classifiers \in BOOLEAN
  /\ tracker \in Trackers
  /\ count \in 0..(freq - 1)
  /\ requestId \in Nat
  /\ fuel \in 0..MaxNested
  /\ acts \in ListenerConfigs
  /\ ticks \in 0..MaxTicks
  /\ elemDims \in Dims /\ canvasDims \in Dims
  /\ pendingLoads \in 0..loads
  /\ Len(emitted) <= MaxEmits + MaxNested
  /\ \A i \in 1..Len(emitted) : emitted[i] \in {"running", "stopping", "idle"}
  /\ \A i \in 1..Len(delivered) : delivered[i] \in 1..Len(emitted)

\* The detections the tracker emitted while the task was Running, in order.
EmittedRunning(p) == emitted[p] = "running"
Ids == [i \in 1..Len(emitted) |-> i]
WhileRunning == SelectSeq(Ids, EmittedRunning)

\* C1: a detection the tracker emits while the task is Idle (never run, or
\* after stop() has completed) is never delivered to the task's 'track'
\* listeners: no delivered detection was emitted while the task was Idle.
C1_NoDeliveryWhenIdle ==
  \A i \in 1..Len(delivered) : emitted[delivered[i]] # "idle"

\* C2: when stop() is called from inside a tick callback of a Running video
\* task and the task is Idle when the callback finishes, no tick is pending.
C2_StopInsideTickHaltsLoop ==
  (last.op = "tick" /\ last.wasRunning /\ last.dStop > 0 /\ ~running)
    => pending = {}

\* C3: when the host calls stop() on a Running video task while a tick is
\* pending, and the task is Idle when stop() returns, no tick is pending any
\* more.
C3_StopCancelsPendingTick ==
  (last.op = "stop" /\ last.wasRunning /\ last.pendingBefore > 0 /\ ~running)
    => pending = {}

\* C4: on an extraction tick where the source is ready but drawImage throws,
\* tracker.track is not invoked, no detection is emitted and the next tick is
\* requested.
C4_CopyFaultAbandonsExtraction ==
  (last.op = "tick" /\ last.extractTick /\ last.ready /\ last.fault)
    => (last.dTrack = 0 /\ last.dEmit = 0 /\ requestId \in pending)

\* C5 as stated: with the source always ready, a tick invokes tracker.track
\* exactly when the number of ticks executed since the last Idle->Running
\* transition is a multiple of the frequency.
C5_ExtractionsSinceRun ==
  (last.op = "tick" /\ allReady /\ last.dRun = 0)
    => ((last.dTrack = 1) <=> (ticksSinceRun % freq = 0))

\* C5 amended: with the source always ready, after M ticks executed since the
\* video task was created (over all its runs) tracker.track has been invoked
\* exactly floor(M / N) times, so exactly on ticks N, 2N, 3N, ... of the task.
C5_ExtractionsSinceCreation ==
  (kind = "video" /\ allReady) => trackCalls = ticks \div freq

C5_Witness ==
  /\ kind = "video" /\ allReady /\ freq = 2 /\ ticks = 3 /\ trackCalls = 1
  /\ runSignals >= 2 /\ last.op = "tick"

\* C6: two run() calls in a row by the host, the first on an Idle task and no
\* stop() call in between, emit one 'run' signal in all and leave exactly one
\* relay listener on the tracker.
C6_RunIdempotent ==
  last.streak = 2 => (last.streakRun = 1 /\ RelayCount(tListeners) = 1)

\* C7: run() returns the task, whether it made the Idle->Running transition
\* or found the task Running.
C7_RunReturnsTask ==
  last.op = "run" => last.ret = "this"

\* C8: stop() on an Idle task emits no 'stop' signal, raises nothing and
\* leaves the running flag, the tracker's listeners, the relay, the pending
\* ticks and requestId as they were.
C8_IdleStopIsNoop ==
  [][(last'.op = "stop" /\ ~running /\ last' # last)
       => (/\ last'.dStop = 0
           /\ last'.dRun = 0
           /\ ~last'.threw
           /\ UNCHANGED <<running, tListeners, reemit, pending, requestId,
                          count, delivered, emitted>>)]_vars

\* stop() was called on a video task that had run, relayed a detection and
\* been stopped already.
C8_Witness ==
  /\ last.op = "stop" /\ ~last.wasRunning /\ last.dStopCalls = 1
  /\ kind = "video" /\ runSignals > 0 /\ delivered # <<>> /\ ~running

\* C9: the detections delivered to the task's 'track' listeners that were
\* emitted while the task was Running are exactly those detections, each
\* once, in emission order.
DeliveredRunning == SelectSeq(delivered, EmittedRunning)
C9_RelayedExactlyOnceInOrder ==
  DeliveredRunning = WhileRunning

\* C10: an extraction tick that finds the source not ready invokes no
\* tracker.track, emits nothing, raises nothing, resets the counter and leaves
\* the next tick requested; an extraction tick that finds it ready and copies
\* the frame invokes tracker.track once.
C10_NotReadySkipsOneTick ==
  /\ (last.op = "tick" /\ last.extractTick /\ ~last.ready)
       => (/\ last.dTrack = 0 /\ last.dEmit = 0 /\ ~last.threw
           /\ count = 0 /\ requestId \in pending)
  /\ (last.op = "tick" /\ last.extractTick /\ last.ready /\ ~last.fault)
       => (last.dTrack = 1 /\ canvasFrame = ticks)

\* A not-ready tick was skipped earlier and the last tick extracted.
C10_Witness ==
  /\ ~allReady /\ running /\ last.op = "tick" /\ last.extractTick /\ last.ready
  /\ last.dTrack = 1 /\ requestId \in pending

\* C11: for a canvas element every run() that makes the Idle->Running
\* transition calls tracker.track exactly once, inside run(), and no animation
\* frame is ever requested; a run() on a Running task calls tracker.track not
\* at all.
C11_CanvasRunExtractsOnce ==
  kind = "canvas"
    => (/\ pending = {}
        /\ trackCalls = runSignals
        /\ last.dTrack = last.dRun
        /\ (last.op = "run" /\ ~last.wasRunning) => last.dTrack = 1
        /\ (last.op = "run" /\ last.wasRunning) => last.dTrack = 0)

\* A canvas task stopped and run again: the second run extracted once more.
C11_Witness ==
  /\ kind = "canvas" /\ last.op = "run" /\ ~last.wasRunning
  /\ last.dTrack = 1 /\ trackCalls = 2 /\ running

\* C12: tracking.track on a video element with a tracker and no freq option
\* (an options object without it, or no options object) hands out a Running
\* task whose loop has frequency 100 and a first frame requested.
C12_DefaultFrequency ==
  (last.op = "init" /\ kind = "video" /\ hasTracker
     /\ options \in {"undefined", "empty"})
    => (err = "none" /\ freq = DefaultFreq /\ running /\ pending # {})

\* C13: when the construction raises a configuration error (element not found,
\* no tracker, element not supported) no 'run' event has been emitted, no
\* animation frame requested, no camera requested, tracker.track not called,
\* and the task is neither Running nor relayed to.
C13_ConfigErrorBeforeStart ==
  err \in ConfigErrors
    => (/\ last.threw
        /\ runSignals = 0 /\ pending = {} /\ ~captureRequested
        /\ trackCalls = 0 /\ ~running /\ RelayCount(tListeners) = 0
        /\ loads = 0)

\* tracking.track(video, undefined, {camera: true}) threw.
C13_Witness ==
  /\ err = "TrackerNotSpecified" /\ kind = "video" /\ options = "camera"
  /\ ~hasTracker /\ last.op = "init"

\* C14: every extraction hands tracker.track the size the canvas had when its
\* pixels were read; a tick leaves the canvas size as it read it, and the
\* resize handler gives the canvas the element's size for the extractions
\* that follow.
C14_ExtractionUsesCanvasSize ==
  /\ last.trackDims # "none" => last.trackDims = last.readDims
  /\ (last.op = "tick" /\ last.readDims # "none") => last.readDims = canvasDims
  /\ last.op = "resize" => (canvasDims = elemDims /\ last.dTrack = 0)

\* The video was resized, the handler ran, and a later tick extracted with the
\* new size.
C14_Witness ==
  /\ kind = "video" /\ last.op = "tick" /\ last.dTrack = 1
  /\ last.trackDims = "640x480" /\ canvasDims = "640x480" /\ resizes = 1

\* C15: for a video task, between operations, an animation frame is pending
\* exactly when the task is Running.
C15_PendingIffRunning ==
  (kind = "video" /\ err = "none") => ((pending # {}) <=> running)

\* C16: for a video task at most one animation frame is pending at any time.
C16_AtMostOnePendingTick ==
  kind = "video" => Cardinality(pending) <= 1

\* C17: stop() clears the running flag, then emits 'stop', then removes the
\* relay: a detection emitted while the 'stop' listeners run is delivered to
\* the task's 'track' listeners, and one emitted after stop() has returned
\* (the task Idle) is not.
C17_StopOrder ==
  \A p \in 1..Len(emitted) :
    /\ emitted[p] = "stopping" => p \in Range(delivered)
    /\ emitted[p] = "idle" => p \notin Range(delivered)

\* C18: a tick in which tracker.track throws lets the exception out of the
\* tick callback, leaves the running flag as it was and emits no 'stop'.
C18_TrackFailurePropagates ==
  (last.op = "tick" /\ last.dTrack > 0 /\ ~classifiers)
    => (last.threw /\ running = last.wasRunning /\ last.dStop = 0
        /\ last.dRun = 0)

\* tracker.track threw in an extraction tick of a Running task.
C18_Witness ==
  /\ last.op = "tick" /\ last.extractTick /\ last.ready /\ last.dTrack = 1
  /\ last.threw /\ running /\ last.wasRunning

\* C19: an img element is loaded once however often the task is run, every
\* Idle->Running transition gives one tracker.track call, and tracker.track is
\* never called while the task is Idle.
C19_ImageLoadedOnce ==
  (kind = "img" /\ err = "none")
    => (/\ loads <= 1
        /\ trackCalls + pendingLoads = runSignals
        /\ (last.op = "load" => last.wasRunning))

\* C20: the task's relay is attached to a tracker exactly when the task is
\* Running, setTracker calls included: an Idle task has no relay on either
\* tracker.
C20_RelayIffRunning ==
  kind = "task" => ((RelayCount(tListeners) > 0) <=> running)

====
